---- MODULE Spec2Model ----
(***************************************************************************)
(* Research orchestration of ClaudeBuddy: the task registry and HTTP       *)
(* handlers of server/app/routers/research.py and the supervisor graph of  *)
(* server/app/agents (supervisor, researcher, writer, save_results).       *)
(*                                                                         *)
(* One action is one atomic stretch of the asyncio event loop: an HTTP     *)
(* handler, or one node of the graph together with the routing function    *)
(* evaluated after it and the body of the `async for` loop of              *)
(* run_research_task that consumes the node's update.                      *)
(*                                                                         *)
(* datetime.utcnow() is modelled by the task's logical clock: a timestamp  *)
(* taken in a handler is the index of the event that handler appends.      *)
(***************************************************************************)
EXTENDS Integers, Sequences, FiniteSets, TLC

VARIABLES
    environment,     \* get_settings() and importability of the agents package
    uuids,           \* task ids uuid.uuid4() has not issued yet
    research_tasks,  \* _research_tasks: task id -> task dict
    background,      \* scheduled run_research_task coroutines: id -> position and graph state
    response,        \* what the step just taken answered to its HTTP caller
    streams          \* open /stream responses: stream id -> state of its event_generator

vars == <<environment, uuids, research_tasks, background, response, streams>>

----------------------------------------------------------------------------
(* Bounds of the model *)

MaxRoundLimit == 2      \* largest valid max_searches a request carries
MaxBatch == 2           \* longest result list the search provider returns
MaxCancels == 2         \* accepted DELETE requests per task
MaxDeepLimit == 3       \* largest max_searches of the runs that go past MinExploration

(* Program constants *)

MinSearches == 1        \* Field(ge=1)
MaxSearches == 15       \* Field(le=15)
MinQueryLen == 10       \* Field(min_length=10)
MaxQueryLen == 2000     \* Field(max_length=2000)
MinExploration == 2     \* search_count < 2
ManySearches == 3       \* search_count >= 3
ManyFindings == 5       \* len(research_findings) >= 5
MinGeneratedLen == 5    \* len(new_query) < 5
MaxResults == 5         \* max_results=5

None == "None"
NoTime == 0

TaskIdPool == {"t1"}

StreamIds == {"s1"}

ProviderUrls == {"a", None}

\* a query is its text (a sequence of pieces) and its length in characters
Queries ==
    { [text |-> <<"impact of X on Y">>, len |-> 16],
      [text |-> <<"too short">>, len |-> 9],
      [text |-> <<"too long">>, len |-> MaxQueryLen + 1] }

RoundLimits == (0 .. MaxRoundLimit) \cup {MaxSearches + 1}

----------------------------------------------------------------------------
(* Sequences *)

Range(s) == { s[i] : i \in 1 .. Len(s) }

SeqsUpTo(S, n) == UNION { [1 .. k -> S] : k \in 0 .. n }

Contains(s, x) == \E i \in 1 .. Len(s) : s[i] = x

----------------------------------------------------------------------------
(* Text-generation and search providers: what a call can answer *)

\* str.upper() on the pieces a reply is made of
Upper(piece) ==
    CASE piece = "write" -> "WRITE"
      [] piece = "Write" -> "WRITE"
      [] piece = "research" -> "RESEARCH"
      [] piece = "Research" -> "RESEARCH"
      [] OTHER -> piece

UpperAll(content) == [i \in 1 .. Len(content) |-> Upper(content[i])]

\* llm.invoke(prompt) in should_continue_research: raises, or response.content
JudgeReplies ==
    { [raised |-> TRUE, content |-> << >>] } \cup
    { [raised |-> FALSE, content |-> c] :
        c \in { <<"WRITE">>, <<"write">>, <<"RESEARCH">>, <<"Research">>,
                <<"maybe">>, << >>, <<"RESEARCH", "write">> } }

\* llm.invoke(prompt) in generate_search_query: raises, or response.content.strip()
QueryReplies ==
    { [raised |-> TRUE, text |-> << >>, len |-> 0],
      [raised |-> FALSE, text |-> <<"new angle on X">>, len |-> 14],
      [raised |-> FALSE, text |-> <<"X Y">>, len |-> 3],
      [raised |-> FALSE, text |-> << >>, len |-> 0] }

\* llm.ainvoke(prompt) in writer_node: raises, or response.content
WriterReplies ==
    { [raised |-> TRUE, content |-> ""],
      [raised |-> FALSE, content |-> "# Summary"] }

\* tavily.search(...): raises, or {"results": [...]} with at most MaxBatch results
SearchReplies ==
    { [raised |-> TRUE, results |-> << >>] } \cup
    { [raised |-> FALSE, results |-> r] : r \in SeqsUpTo([url : ProviderUrls], MaxBatch) }

\* save_to_project_node: the path written, or None when the file could not be written
SaveReplies == { "research.md", None }

----------------------------------------------------------------------------
(* agents/researcher.py *)

\* only the first search uses the original query unasked
generate_search_query_first_only(original_query, existing_findings, search_count, llm) ==
    IF search_count = 0
    THEN [raised |-> FALSE, query |-> original_query]
    ELSE IF llm.raised
    THEN [raised |-> TRUE, query |-> original_query]
    ELSE IF llm.len = 0 \/ llm.len < MinGeneratedLen
    THEN [raised |-> FALSE,
          query |-> [text |-> original_query.text \o <<" details examples">>,
                     len |-> original_query.len + 17]]
    ELSE [raised |-> FALSE, query |-> [text |-> llm.text, len |-> llm.len]]

generate_search_query(original_query, existing_findings, search_count, llm) ==
    IF search_count = 0 \/ existing_findings = << >>
    THEN [raised |-> FALSE, query |-> original_query]
    ELSE IF llm.raised
    THEN [raised |-> TRUE, query |-> original_query]
    ELSE IF llm.len = 0 \/ llm.len < MinGeneratedLen
    THEN [raised |-> FALSE,
          query |-> [text |-> original_query.text \o <<" details examples">>,
                     len |-> original_query.len + 17]]
    ELSE [raised |-> FALSE, query |-> [text |-> llm.text, len |-> llm.len]]

\* result.get("url", "") and the other fields of a ResearchFinding
ExtractFinding(result) ==
    [url |-> IF result.url = None THEN "" ELSE result.url]

ExtractFindings(results) == [i \in 1 .. Len(results) |-> ExtractFinding(results[i])]

\* the surviving findings are appended newest first
UniqueNew_newest_first(research_findings, new_findings) ==
    LET existing_urls == { f.url : f \in Range(research_findings) }
        Fresh(f) == f.url \notin existing_urls
        kept == SelectSeq(new_findings, Fresh)
    IN  [i \in 1 .. Len(kept) |-> kept[Len(kept) + 1 - i]]

\* dedupe by URL against the findings of the earlier rounds
UniqueNew(research_findings, new_findings) ==
    LET existing_urls == { f.url : f \in Range(research_findings) }
        Fresh(f) == f.url \notin existing_urls
    IN  SelectSeq(new_findings, Fresh)

\* the except branch returns without counting the round
ResearcherUpdate_failure_uncounted(state, search) ==
    IF search.raised
    THEN [keys |-> {"messages"},
          research_findings |-> << >>,
          search_count |-> state.search_count,
          final_summary |-> "",
          saved_path |-> None,
          messages |-> <<"Search error">>]
    ELSE [keys |-> {"research_findings", "search_count", "messages"},
          research_findings |->
              state.research_findings \o
              UniqueNew(state.research_findings, ExtractFindings(search.results)),
          search_count |-> state.search_count + 1,
          final_summary |-> "",
          saved_path |-> None,
          messages |-> <<"Searched for">>]

\* the update researcher_node returns; keys are the keys of the returned dict
ResearcherUpdate(state, search) ==
    IF search.raised
    THEN [keys |-> {"search_count", "messages"},
          research_findings |-> << >>,
          search_count |-> state.search_count + 1,
          final_summary |-> "",
          saved_path |-> None,
          messages |-> <<"Search error">>]
    ELSE [keys |-> {"research_findings", "search_count", "messages"},
          research_findings |->
              state.research_findings \o
              UniqueNew(state.research_findings, ExtractFindings(search.results)),
          search_count |-> state.search_count + 1,
          final_summary |-> "",
          saved_path |-> None,
          messages |-> <<"Searched for">>]

----------------------------------------------------------------------------
(* agents/supervisor.py *)

SupervisorUpdate(state) ==
    [keys |-> IF state.search_count = 0 THEN {"messages"} ELSE {},
     research_findings |-> << >>,
     search_count |-> 0,
     final_summary |-> "",
     saved_path |-> None,
     messages |-> IF state.search_count = 0 THEN <<"Starting research on">> ELSE << >>]

\* the safety limit tested with > instead of >=
should_continue_research_late_cap(state, llm) ==
    IF state.search_count > state.max_searches THEN "write"
    ELSE IF state.research_findings = << >> THEN "research"
    ELSE IF state.search_count < MinExploration THEN "research"
    ELSE IF llm.raised
    THEN IF state.search_count >= ManySearches /\ Len(state.research_findings) >= ManyFindings
         THEN "write"
         ELSE "research"
    ELSE LET decision == UpperAll(llm.content)
         IN  IF Contains(decision, "WRITE") THEN "write"
             ELSE IF Contains(decision, "RESEARCH") THEN "research"
             ELSE IF state.search_count >= ManySearches THEN "write"
             ELSE "research"

\* the empty-findings test placed before the safety limit
should_continue_research_findings_first(state, llm) ==
    IF state.research_findings = << >> THEN "research"
    ELSE IF state.search_count >= state.max_searches THEN "write"
    ELSE IF state.search_count < MinExploration THEN "research"
    ELSE IF llm.raised
    THEN IF state.search_count >= ManySearches /\ Len(state.research_findings) >= ManyFindings
         THEN "write"
         ELSE "research"
    ELSE LET decision == UpperAll(llm.content)
         IN  IF Contains(decision, "WRITE") THEN "write"
             ELSE IF Contains(decision, "RESEARCH") THEN "research"
             ELSE IF state.search_count >= ManySearches THEN "write"
             ELSE "research"

\* an unclear reply always means research
should_continue_research_unclear_researches(state, llm) ==
    IF state.search_count >= state.max_searches THEN "write"
    ELSE IF state.research_findings = << >> THEN "research"
    ELSE IF state.search_count < MinExploration THEN "research"
    ELSE IF llm.raised
    THEN IF state.search_count >= ManySearches /\ Len(state.research_findings) >= ManyFindings
         THEN "write"
         ELSE "research"
    ELSE LET decision == UpperAll(llm.content)
         IN  IF Contains(decision, "WRITE") THEN "write"
             ELSE "research"

\* a failed call means write after ManySearches rounds, however few the findings
should_continue_research_failure_ignores_findings(state, llm) ==
    IF state.search_count >= state.max_searches THEN "write"
    ELSE IF state.research_findings = << >> THEN "research"
    ELSE IF state.search_count < MinExploration THEN "research"
    ELSE IF llm.raised
    THEN IF state.search_count >= ManySearches
         THEN "write"
         ELSE "research"
    ELSE LET decision == UpperAll(llm.content)
         IN  IF Contains(decision, "WRITE") THEN "write"
             ELSE IF Contains(decision, "RESEARCH") THEN "research"
             ELSE IF state.search_count >= ManySearches THEN "write"
             ELSE "research"

\* the reply is tested for RESEARCH before WRITE
should_continue_research_research_first(state, llm) ==
    IF state.search_count >= state.max_searches THEN "write"
    ELSE IF state.research_findings = << >> THEN "research"
    ELSE IF state.search_count < MinExploration THEN "research"
    ELSE IF llm.raised
    THEN IF state.search_count >= ManySearches /\ Len(state.research_findings) >= ManyFindings
         THEN "write"
         ELSE "research"
    ELSE LET decision == UpperAll(llm.content)
         IN  IF Contains(decision, "RESEARCH") THEN "research"
             ELSE IF Contains(decision, "WRITE") THEN "write"
             ELSE IF state.search_count >= ManySearches THEN "write"
             ELSE "research"

\* the minimum-exploration test left out
should_continue_research_no_min_exploration(state, llm) ==
    IF state.search_count >= state.max_searches THEN "write"
    ELSE IF state.research_findings = << >> THEN "research"
    ELSE IF llm.raised
    THEN IF state.search_count >= ManySearches /\ Len(state.research_findings) >= ManyFindings
         THEN "write"
         ELSE "research"
    ELSE LET decision == UpperAll(llm.content)
         IN  IF Contains(decision, "WRITE") THEN "write"
             ELSE IF Contains(decision, "RESEARCH") THEN "research"
             ELSE IF state.search_count >= ManySearches THEN "write"
             ELSE "research"

\* the empty-findings test left out
should_continue_research_no_empty_test(state, llm) ==
    IF state.search_count >= state.max_searches THEN "write"
    ELSE IF state.search_count < MinExploration THEN "research"
    ELSE IF llm.raised
    THEN IF state.search_count >= ManySearches /\ Len(state.research_findings) >= ManyFindings
         THEN "write"
         ELSE "research"
    ELSE LET decision == UpperAll(llm.content)
         IN  IF Contains(decision, "WRITE") THEN "write"
             ELSE IF Contains(decision, "RESEARCH") THEN "research"
             ELSE IF state.search_count >= ManySearches THEN "write"
             ELSE "research"

should_continue_research(state, llm) ==
    IF state.search_count >= state.max_searches THEN "write"
    ELSE IF state.research_findings = << >> THEN "research"
    ELSE IF state.search_count < MinExploration THEN "research"
    ELSE IF llm.raised
    THEN IF state.search_count >= ManySearches /\ Len(state.research_findings) >= ManyFindings
         THEN "write"
         ELSE "research"
    ELSE LET decision == UpperAll(llm.content)
         IN  IF Contains(decision, "WRITE") THEN "write"
             ELSE IF Contains(decision, "RESEARCH") THEN "research"
             ELSE IF state.search_count >= ManySearches THEN "write"
             ELSE "research"

\* the two conditional edges lead to each other's node
RouteAfterSupervisor_swapped(decision) ==
    IF decision = "research" THEN "writer" ELSE "researcher"

\* the conditional edges of create_supervisor_graph
RouteAfterSupervisor(decision) ==
    IF decision = "research" THEN "researcher" ELSE "writer"

----------------------------------------------------------------------------
(* agents/writer.py and the save_results node *)

WriterUpdate(llm) ==
    [keys |-> {"final_summary", "messages"},
     research_findings |-> << >>,
     search_count |-> 0,
     final_summary |-> llm.content,
     saved_path |-> None,
     messages |-> <<"Research summary completed.">>]

SaveUpdate(saved) ==
    [keys |-> IF saved = None THEN {} ELSE {"saved_path"},
     research_findings |-> << >>,
     search_count |-> 0,
     final_summary |-> "",
     saved_path |-> saved,
     messages |-> << >>]

\* how the graph merges a node's update into its state: last value per key,
\* messages appended (add_messages)
MergeState(state, u) ==
    [state EXCEPT
        !.research_findings =
            IF "research_findings" \in u.keys THEN u.research_findings ELSE @,
        !.search_count = IF "search_count" \in u.keys THEN u.search_count ELSE @,
        !.final_summary = IF "final_summary" \in u.keys THEN u.final_summary ELSE @,
        !.saved_path = IF "saved_path" \in u.keys THEN u.saved_path ELSE @,
        !.messages = IF "messages" \in u.keys THEN @ \o u.messages ELSE @]

----------------------------------------------------------------------------
(* routers/research.py *)

Terminal == {"completed", "failed", "cancelled"}
Finished == {"completed", "failed"}

add_event(task, event_type, data) ==
    [task EXCEPT !.events = Append(@, [type |-> event_type, data |-> data])]

\* datetime.utcnow() read just before the handler appends its event
utcnow(task) == Len(task.events) + 1

NewTask(task_id, request) ==
    [task_id |-> task_id,
     status |-> "pending",
     query |-> request.query,
     max_searches |-> request.max_searches,
     search_count |-> 0,
     current_phase |-> "initializing",
     findings |-> << >>,
     findings_count |-> 0,
     final_summary |-> "",
     completed_at |-> NoTime,
     saved_path |-> None,
     error |-> None,
     events |-> << >>]

initial_state(task) ==
    [messages |-> << >>,
     research_query |-> task.query,
     research_findings |-> << >>,
     search_count |-> 0,
     max_searches |-> task.max_searches,
     final_summary |-> "",
     saved_path |-> None]

\* lines 100-124: the task is marked researching and the graph is set up
StartRunning(task) ==
    LET t1 == [task EXCEPT !.status = "researching",
                           !.current_phase = "importing supervisor agent"]
        t2 == add_event(t1, "status", [message |-> "Starting research..."])
        t3 == [t2 EXCEPT !.current_phase = "running supervisor graph"]
    IN  add_event(t3, "status", [message |-> "Research in progress..."])

\* lines 100-103 followed by the ImportError handler
StartImportError(task) ==
    LET t1 == [task EXCEPT !.status = "researching",
                           !.current_phase = "importing supervisor agent"]
        t2 == add_event(t1, "status", [message |-> "Starting research..."])
        t3 == [t2 EXCEPT !.status = "failed",
                         !.error = "Supervisor agent not available",
                         !.completed_at = utcnow(t2)]
    IN  add_event(t3, "error", [message |-> t3.error])

\* an update without search_count sets the task's counter to 0
ProcessUpdate_count_defaults_to_zero(task, node_name, node_state) ==
    LET findings_got ==
            IF "research_findings" \in node_state.keys
            THEN node_state.research_findings ELSE << >>
        t1 == [task EXCEPT
                  !.search_count =
                      IF "search_count" \in node_state.keys
                      THEN node_state.search_count ELSE 0,
                  !.findings_count = Len(findings_got),
                  !.findings = IF findings_got # << >> THEN findings_got ELSE @,
                  !.final_summary =
                      IF "final_summary" \in node_state.keys /\ node_state.final_summary # ""
                      THEN node_state.final_summary ELSE @,
                  !.saved_path =
                      IF "saved_path" \in node_state.keys /\ node_state.saved_path # None
                      THEN node_state.saved_path ELSE @]
    IN  add_event(t1, "progress",
                  [search_count |-> t1.search_count,
                   findings_count |-> t1.findings_count,
                   phase |-> node_name])

\* the body of `async for state in graph.astream(initial_state)` for one update
ProcessUpdate(task, node_name, node_state) ==
    LET findings_got ==
            IF "research_findings" \in node_state.keys
            THEN node_state.research_findings ELSE << >>
        t1 == [task EXCEPT
                  !.search_count =
                      IF "search_count" \in node_state.keys
                      THEN node_state.search_count ELSE @,
                  !.findings_count = Len(findings_got),
                  !.findings = IF findings_got # << >> THEN findings_got ELSE @,
                  !.final_summary =
                      IF "final_summary" \in node_state.keys /\ node_state.final_summary # ""
                      THEN node_state.final_summary ELSE @,
                  !.saved_path =
                      IF "saved_path" \in node_state.keys /\ node_state.saved_path # None
                      THEN node_state.saved_path ELSE @]
    IN  add_event(t1, "progress",
                  [search_count |-> t1.search_count,
                   findings_count |-> t1.findings_count,
                   phase |-> node_name])

\* a run that saved nothing is marked failed instead of completed
Complete_unsaved_fails(task) ==
    LET t1 == [task EXCEPT !.status = IF task.saved_path = None THEN "failed" ELSE "completed",
                           !.current_phase = "completed",
                           !.completed_at = utcnow(task)]
    IN  add_event(t1, "complete",
                  [saved_path |-> t1.saved_path, findings_count |-> t1.findings_count])

\* lines 155-162
Complete(task) ==
    LET t1 == [task EXCEPT !.status = "completed",
                           !.current_phase = "completed",
                           !.completed_at = utcnow(task)]
    IN  add_event(t1, "complete",
                  [saved_path |-> t1.saved_path, findings_count |-> t1.findings_count])

\* the handler marks the task failed without storing str(e)
FailTask_error_unset(task, message) ==
    LET t1 == [task EXCEPT !.status = "failed",
                           !.completed_at = utcnow(task)]
    IN  add_event(t1, "error", [message |-> message])

\* the handler records the error but leaves the status as it was
FailTask_status_kept(task, message) ==
    LET t1 == [task EXCEPT !.error = message,
                           !.completed_at = utcnow(task)]
    IN  add_event(t1, "error", [message |-> message])

\* lines 169-173: an exception escaped the graph
FailTask(task, message) ==
    LET t1 == [task EXCEPT !.status = "failed",
                           !.error = message,
                           !.completed_at = utcnow(task)]
    IN  add_event(t1, "error", [message |-> message])

\* a cancellation is stored as the task's error
Cancel_records_error(task) ==
    LET t1 == [task EXCEPT !.status = "cancelled",
                           !.error = "Task cancelled by user",
                           !.completed_at = utcnow(task)]
    IN  add_event(t1, "cancelled", [message |-> "Task cancelled by user"])

\* lines 286-288
Cancel(task) ==
    LET t1 == [task EXCEPT !.status = "cancelled", !.completed_at = utcnow(task)]
    IN  add_event(t1, "cancelled", [message |-> "Task cancelled by user"])

CancelledEvents(task) ==
    Cardinality({ i \in 1 .. Len(task.events) : task.events[i].type = "cancelled" })

NoResponse == [op |-> "none", task_id |-> None, status_code |-> 0, body |-> [detail |-> ""]]

Reply(op, task_id, status_code, body) ==
    [op |-> op, task_id |-> task_id, status_code |-> status_code, body |-> body]

\* the constraint le=15 left off max_searches
ValidRequest_no_upper_limit(request) ==
    /\ request.query.len >= MinQueryLen
    /\ request.query.len <= MaxQueryLen
    /\ request.max_searches >= MinSearches

\* ResearchRequest: the pydantic Field constraints
ValidRequest(request) ==
    /\ request.query.len >= MinQueryLen
    /\ request.query.len <= MaxQueryLen
    /\ request.max_searches >= MinSearches
    /\ request.max_searches <= MaxSearches

\* the fields a 422 response names
InvalidFields(request) ==
    (IF request.query.len < MinQueryLen \/ request.query.len > MaxQueryLen
     THEN {"query"} ELSE {})
    \cup
    (IF request.max_searches < MinSearches \/ request.max_searches > MaxSearches
     THEN {"max_searches"} ELSE {})

Requests == [query : Queries, max_searches : RoundLimits]

StatusBody(task) ==
    [task_id |-> task.task_id,
     status |-> task.status,
     query |-> task.query,
     search_count |-> task.search_count,
     max_searches |-> task.max_searches,
     current_phase |-> task.current_phase,
     findings_count |-> task.findings_count,
     completed_at |-> task.completed_at,
     saved_path |-> task.saved_path,
     error |-> task.error]

ResultBody(task) ==
    [task_id |-> task.task_id,
     status |-> task.status,
     query |-> task.query,
     summary |-> task.final_summary,
     findings |-> task.findings,
     saved_path |-> task.saved_path,
     error |-> task.error,
     completed_at |-> task.completed_at]

----------------------------------------------------------------------------
(* The state machine *)

Init ==
    /\ environment \in [anthropic_api_key : BOOLEAN, tavily_api_key : BOOLEAN,
                        agents_importable : BOOLEAN]
    /\ uuids = TaskIdPool
    /\ research_tasks = << >>
    /\ background = << >>
    /\ response = NoResponse
    /\ streams = << >>

Registered == DOMAIN research_tasks

\* the search credential is not looked at
start_research_search_key_unchecked(request, task_id) ==
    /\ task_id \in uuids
    /\ IF ~ValidRequest(request)
       THEN /\ response' = Reply("start_research", None, 422,
                                 [detail |-> "validation error", loc |-> InvalidFields(request)])
            /\ UNCHANGED <<uuids, research_tasks, background>>
       ELSE IF ~environment.anthropic_api_key
       THEN /\ response' = Reply("start_research", None, 400,
                                 [detail |-> "ANTHROPIC_API_KEY not configured"])
            /\ UNCHANGED <<uuids, research_tasks, background>>
       ELSE /\ uuids' = uuids \ {task_id}
            /\ research_tasks' = (task_id :> NewTask(task_id, request)) @@ research_tasks
            /\ background' =
                   (task_id :> [pc |-> "scheduled",
                                state |-> initial_state(NewTask(task_id, request))])
                   @@ background
            /\ response' = Reply("start_research", task_id, 200,
                                 [detail |-> "Research task started"])
    /\ UNCHANGED <<environment, streams>>

\* POST /research/start; requests are drawn while uuid4 has an id left to issue
start_research(request, task_id) ==
    /\ task_id \in uuids
    /\ IF ~ValidRequest(request)
       THEN /\ response' = Reply("start_research", None, 422,
                                 [detail |-> "validation error", loc |-> InvalidFields(request)])
            /\ UNCHANGED <<uuids, research_tasks, background>>
       ELSE IF ~environment.anthropic_api_key
       THEN /\ response' = Reply("start_research", None, 400,
                                 [detail |-> "ANTHROPIC_API_KEY not configured"])
            /\ UNCHANGED <<uuids, research_tasks, background>>
       ELSE IF ~environment.tavily_api_key
       THEN /\ response' = Reply("start_research", None, 400,
                                 [detail |-> "TAVILY_API_KEY not configured"])
            /\ UNCHANGED <<uuids, research_tasks, background>>
       ELSE /\ uuids' = uuids \ {task_id}
            /\ research_tasks' = (task_id :> NewTask(task_id, request)) @@ research_tasks
            /\ background' =
                   (task_id :> [pc |-> "scheduled",
                                state |-> initial_state(NewTask(task_id, request))])
                   @@ background
            /\ response' = Reply("start_research", task_id, 200,
                                 [detail |-> "Research task started"])
    /\ UNCHANGED <<environment, streams>>

\* GET /research/{task_id}/status
get_research_status(task_id) ==
    /\ response' =
           IF task_id \notin Registered
           THEN Reply("get_research_status", task_id, 404, [detail |-> "Task not found"])
           ELSE Reply("get_research_status", task_id, 200, StatusBody(research_tasks[task_id]))
    /\ UNCHANGED <<environment, uuids, research_tasks, background, streams>>

\* GET /research/tasks
list_research_tasks ==
    /\ response' = Reply("list_research_tasks", None, 200,
                         [tasks |-> { StatusBody(research_tasks[task_id]) :
                                        task_id \in Registered }])
    /\ UNCHANGED <<environment, uuids, research_tasks, background, streams>>

\* the result request removes the task it has delivered
get_research_result_consumes(task_id) ==
    /\ response' =
           IF task_id \notin Registered
           THEN Reply("get_research_result", task_id, 404, [detail |-> "Task not found"])
           ELSE IF research_tasks[task_id].status \notin Finished
           THEN Reply("get_research_result", task_id, 400,
                      [detail |-> "Task not yet completed"])
           ELSE Reply("get_research_result", task_id, 200, ResultBody(research_tasks[task_id]))
    /\ research_tasks' =
           IF task_id \in Registered /\ research_tasks[task_id].status \in Finished
           THEN [research_tasks EXCEPT ![task_id].events = << >>]
           ELSE research_tasks
    /\ UNCHANGED <<environment, uuids, background, streams>>

\* GET /research/{task_id}/result
get_research_result(task_id) ==
    /\ response' =
           IF task_id \notin Registered
           THEN Reply("get_research_result", task_id, 404, [detail |-> "Task not found"])
           ELSE IF research_tasks[task_id].status \notin Finished
           THEN Reply("get_research_result", task_id, 400,
                      [detail |-> "Task not yet completed"])
           ELSE Reply("get_research_result", task_id, 200, ResultBody(research_tasks[task_id]))
    /\ UNCHANGED <<environment, uuids, research_tasks, background, streams>>

\* an accepted cancellation marks every unfinished task of the registry
cancel_research_every_task(task_id) ==
    /\ IF task_id \notin Registered
       THEN /\ response' = Reply("cancel_research", task_id, 404, [detail |-> "Task not found"])
            /\ UNCHANGED research_tasks
       ELSE IF research_tasks[task_id].status \in Finished
       THEN /\ response' = Reply("cancel_research", task_id, 400,
                                 [detail |-> "Task already finished"])
            /\ UNCHANGED research_tasks
       ELSE /\ CancelledEvents(research_tasks[task_id]) < MaxCancels
            /\ research_tasks' =
                   [other \in Registered |->
                       IF /\ research_tasks[other].status \notin Finished
                          /\ CancelledEvents(research_tasks[other]) < MaxCancels
                       THEN Cancel(research_tasks[other])
                       ELSE research_tasks[other]]
            /\ response' = Reply("cancel_research", task_id, 200, [detail |-> "Task cancelled"])
    /\ UNCHANGED <<environment, uuids, background, streams>>

\* DELETE /research/{task_id}
cancel_research(task_id) ==
    /\ IF task_id \notin Registered
       THEN /\ response' = Reply("cancel_research", task_id, 404, [detail |-> "Task not found"])
            /\ UNCHANGED research_tasks
       ELSE IF research_tasks[task_id].status \in Finished
       THEN /\ response' = Reply("cancel_research", task_id, 400,
                                 [detail |-> "Task already finished"])
            /\ UNCHANGED research_tasks
       ELSE /\ CancelledEvents(research_tasks[task_id]) < MaxCancels
            /\ research_tasks' =
                   [research_tasks EXCEPT ![task_id] = Cancel(research_tasks[task_id])]
            /\ response' = Reply("cancel_research", task_id, 200, [detail |-> "Task cancelled"])
    /\ UNCHANGED <<environment, uuids, background, streams>>

\* run_research_task up to the first suspension inside graph.astream
run_research_task_start(task_id) ==
    /\ task_id \in DOMAIN background
    /\ background[task_id].pc = "scheduled"
    /\ IF environment.agents_importable
       THEN /\ research_tasks' =
                   [research_tasks EXCEPT ![task_id] = StartRunning(research_tasks[task_id])]
            /\ background' =
                   [background EXCEPT
                       ![task_id] = [pc |-> "supervisor",
                                     state |-> initial_state(research_tasks[task_id])]]
       ELSE /\ research_tasks' =
                   [research_tasks EXCEPT ![task_id] = StartImportError(research_tasks[task_id])]
            /\ background' = [background EXCEPT ![task_id].pc = "returned"]
    /\ response' = NoResponse
    /\ UNCHANGED <<environment, uuids, streams>>

\* a node returned `update`: the graph merges it, moves to `next`, and the loop
\* of run_research_task consumes it
NodeReturns(task_id, node_name, update, next) ==
    /\ background' =
           [background EXCEPT
               ![task_id] = [pc |-> next, state |-> MergeState(background[task_id].state, update)]]
    /\ research_tasks' =
           [research_tasks EXCEPT
               ![task_id] = ProcessUpdate(research_tasks[task_id], node_name, update)]

\* a node raised: graph.astream raises into `except Exception`
NodeRaises(task_id, message) ==
    /\ background' = [background EXCEPT ![task_id].pc = "returned"]
    /\ research_tasks' =
           [research_tasks EXCEPT ![task_id] = FailTask(research_tasks[task_id], message)]

supervisor_step(task_id, llm) ==
    /\ task_id \in DOMAIN background
    /\ background[task_id].pc = "supervisor"
    /\ LET state == background[task_id].state
           update == SupervisorUpdate(state)
           decision == should_continue_research(MergeState(state, update), llm)
       IN  NodeReturns(task_id, "supervisor", update, RouteAfterSupervisor(decision))
    /\ response' = NoResponse
    /\ UNCHANGED <<environment, uuids, streams>>

researcher_step(task_id, llm, search) ==
    /\ task_id \in DOMAIN background
    /\ background[task_id].pc = "researcher"
    /\ LET state == background[task_id].state
           q == generate_search_query(state.research_query, state.research_findings,
                                      state.search_count, llm)
       IN  IF q.raised
           THEN NodeRaises(task_id, "query generation failed")
           ELSE NodeReturns(task_id, "researcher", ResearcherUpdate(state, search), "supervisor")
    /\ response' = NoResponse
    /\ UNCHANGED <<environment, uuids, streams>>

writer_step(task_id, llm) ==
    /\ task_id \in DOMAIN background
    /\ background[task_id].pc = "writer"
    /\ IF llm.raised
       THEN NodeRaises(task_id, "synthesis failed")
       ELSE NodeReturns(task_id, "writer", WriterUpdate(llm), "save_results")
    /\ response' = NoResponse
    /\ UNCHANGED <<environment, uuids, streams>>

\* the last node; the generator is exhausted and lines 155-162 run
save_results_step(task_id, saved) ==
    /\ task_id \in DOMAIN background
    /\ background[task_id].pc = "save_results"
    /\ LET update == SaveUpdate(saved)
       IN  /\ background' =
                  [background EXCEPT
                      ![task_id] = [pc |-> "returned",
                                    state |-> MergeState(background[task_id].state, update)]]
           /\ research_tasks' =
                  [research_tasks EXCEPT
                      ![task_id] =
                          Complete(ProcessUpdate(research_tasks[task_id], "save_results", update))]
    /\ response' = NoResponse
    /\ UNCHANGED <<environment, uuids, streams>>

\* the generator starts at the end of the log
NewStream_from_end(task) ==
    [task_id |-> task.task_id,
     last_index |-> Len(task.events),
     sent |-> << >>,
     closed |-> FALSE]

\* event_generator starts with last_index = 0; sent is what it has yielded
NewStream(task) ==
    [task_id |-> task.task_id,
     last_index |-> 0,
     sent |-> << >>,
     closed |-> FALSE]

\* the index advances by two after a yield
SendNext_skips(stream, events) ==
    [stream EXCEPT
        !.sent = Append(@, [index |-> stream.last_index,
                            event |-> events[stream.last_index + 1]]),
        !.last_index = @ + 2]

\* lines 253-257: yield events[last_index], then last_index += 1
SendNext(stream, events) ==
    [stream EXCEPT
        !.sent = Append(@, [index |-> stream.last_index,
                            event |-> events[stream.last_index + 1]]),
        !.last_index = @ + 1]

\* the generator ends only on a completed task
StreamDone_completed_only(task) == task.status = "completed"

\* line 260
StreamDone(task) == task.status \in Finished

\* GET /research/{task_id}/stream
stream_research_progress(stream_id, task_id) ==
    /\ stream_id \notin DOMAIN streams
    /\ IF task_id \notin Registered
       THEN /\ response' = Reply("stream_research_progress", task_id, 404,
                                 [detail |-> "Task not found"])
            /\ UNCHANGED streams
       ELSE /\ streams' = (stream_id :> NewStream(research_tasks[task_id])) @@ streams
            /\ response' = Reply("stream_research_progress", task_id, 200,
                                 [detail |-> "text/event-stream"])
    /\ UNCHANGED <<environment, uuids, research_tasks, background>>

\* event_generator up to its next yield
event_generator_send(stream_id) ==
    /\ stream_id \in DOMAIN streams
    /\ ~streams[stream_id].closed
    /\ LET events == research_tasks[streams[stream_id].task_id].events
       IN  /\ streams[stream_id].last_index < Len(events)
           /\ streams' = [streams EXCEPT ![stream_id] = SendNext(streams[stream_id], events)]
    /\ response' = NoResponse
    /\ UNCHANGED <<environment, uuids, research_tasks, background>>

\* event_generator with nothing left to send: it ends when the task is done;
\* otherwise it sleeps 0.5 s and looks again, which changes nothing
event_generator_close(stream_id) ==
    /\ stream_id \in DOMAIN streams
    /\ ~streams[stream_id].closed
    /\ LET task == research_tasks[streams[stream_id].task_id]
       IN  /\ streams[stream_id].last_index >= Len(task.events)
           /\ StreamDone(task)
    /\ streams' = [streams EXCEPT ![stream_id].closed = TRUE]
    /\ response' = NoResponse
    /\ UNCHANGED <<environment, uuids, research_tasks, background>>

event_generator(stream_id) ==
    \/ event_generator_send(stream_id)
    \/ event_generator_close(stream_id)

run_research_task(task_id) ==
    \/ run_research_task_start(task_id)
    \/ \E llm \in JudgeReplies : supervisor_step(task_id, llm)
    \/ \E llm \in QueryReplies, search \in SearchReplies : researcher_step(task_id, llm, search)
    \/ \E llm \in WriterReplies : writer_step(task_id, llm)
    \/ \E saved \in SaveReplies : save_results_step(task_id, saved)

Next ==
    \/ \E request \in Requests, task_id \in TaskIdPool : start_research(request, task_id)
    \/ \E task_id \in TaskIdPool : get_research_status(task_id)
    \/ \E task_id \in TaskIdPool : get_research_result(task_id)
    \/ \E task_id \in TaskIdPool : cancel_research(task_id)
    \/ \E task_id \in TaskIdPool : run_research_task(task_id)

Spec == Init /\ [][Next]_vars

\* the steps that can change a task: the read-only requests answer from
\* research_tasks and change nothing but response
NextTask ==
    \/ \E request \in Requests, task_id \in TaskIdPool : start_research(request, task_id)
    \/ \E task_id \in TaskIdPool : cancel_research(task_id)
    \/ \E task_id \in TaskIdPool : run_research_task(task_id)

\* the event loop runs a scheduled coroutine to its end
FairSpec == Init /\ [][NextTask]_vars /\ \A task_id \in TaskIdPool : WF_vars(run_research_task(task_id))

\* for the event log only the number and the kinds of the events matter: the
\* search either fails or returns one result, and the file is saved
OneResult == [raised |-> FALSE, results |-> <<[url |-> "a"]>>]
SearchRaised == [raised |-> TRUE, results |-> << >>]

run_research_task_plain(task_id) ==
    \/ run_research_task_start(task_id)
    \/ \E llm \in JudgeReplies : supervisor_step(task_id, llm)
    \/ \E llm \in QueryReplies, search \in {SearchRaised, OneResult} :
           researcher_step(task_id, llm, search)
    \/ \E llm \in WriterReplies : writer_step(task_id, llm)
    \/ save_results_step(task_id, "research.md")

\* accepted requests whose runs take one or two rounds
StreamRequests ==
    [query : { q \in Queries : q.len = 16 }, max_searches : MinSearches .. MinExploration]

\* a task, its cancellation and one stream consumer
NextStream ==
    \/ \E request \in StreamRequests, task_id \in TaskIdPool : start_research(request, task_id)
    \/ \E task_id \in TaskIdPool : cancel_research(task_id)
    \/ \E task_id \in TaskIdPool : run_research_task_plain(task_id)
    \/ \E stream_id \in StreamIds, task_id \in TaskIdPool :
           stream_research_progress(stream_id, task_id)
    \/ \E stream_id \in StreamIds : event_generator(stream_id)

SpecStream == Init /\ [][NextStream]_vars

\* the server keeps iterating an open event_generator
FairSpecStream ==
    /\ SpecStream
    /\ \A task_id \in TaskIdPool : WF_vars(run_research_task_plain(task_id))
    /\ \A stream_id \in StreamIds : WF_vars(event_generator(stream_id))

\* a task of one or two rounds, its cancellation and its run under every reply
\* of the providers
NextShort ==
    \/ \E request \in StreamRequests, task_id \in TaskIdPool : start_research(request, task_id)
    \/ \E task_id \in TaskIdPool : cancel_research(task_id)
    \/ \E task_id \in TaskIdPool : run_research_task(task_id)

SpecShort == Init /\ [][NextShort]_vars

\* the event loop runs a scheduled background coroutine on
FairSpecShort ==
    /\ SpecShort
    /\ \A task_id \in TaskIdPool : WF_vars(run_research_task(task_id))

\* every request of the router except the stream, around a running task
NextReads ==
    \/ \E request \in Requests, task_id \in TaskIdPool : start_research(request, task_id)
    \/ \E task_id \in TaskIdPool : get_research_status(task_id)
    \/ \E task_id \in TaskIdPool : get_research_result(task_id)
    \/ list_research_tasks
    \/ \E task_id \in TaskIdPool : cancel_research(task_id)
    \/ \E task_id \in TaskIdPool : run_research_task_plain(task_id)

SpecReads == Init /\ [][NextReads]_vars

\* runs in which no provider call fails and the file is saved
NextNoFailure ==
    \/ \E request \in Requests, task_id \in TaskIdPool : start_research(request, task_id)
    \/ \E task_id \in TaskIdPool : get_research_status(task_id)
    \/ \E task_id \in TaskIdPool : run_research_task_start(task_id)
    \/ \E task_id \in TaskIdPool, llm \in { r \in JudgeReplies : ~r.raised } :
           supervisor_step(task_id, llm)
    \/ \E task_id \in TaskIdPool, llm \in { r \in QueryReplies : ~r.raised },
          search \in { r \in SearchReplies : ~r.raised } :
           researcher_step(task_id, llm, search)
    \/ \E task_id \in TaskIdPool, llm \in { r \in WriterReplies : ~r.raised } :
           writer_step(task_id, llm)
    \/ \E task_id \in TaskIdPool : save_results_step(task_id, "research.md")

SpecNoFailure == Init /\ [][NextNoFailure]_vars

\* a search that returns max_results results, each with a url of its own
ResultUrls == <<"a", "b", "c", "d", "e">>

FullBatch == [raised |-> FALSE, results |-> [i \in 1 .. MaxResults |-> [url |-> ResultUrls[i]]]]

\* a limit that leaves the judgment to the provider after two and after
\* ManySearches rounds
JudgeRequests ==
    [query : { q \in Queries : q.len = 16 }, max_searches : {ManySearches + 1}]

\* runs that reach the provider's judgment with few and with many findings
NextJudge ==
    \/ \E request \in JudgeRequests, task_id \in TaskIdPool : start_research(request, task_id)
    \/ \E task_id \in TaskIdPool : run_research_task_start(task_id)
    \/ \E task_id \in TaskIdPool, llm \in JudgeReplies : supervisor_step(task_id, llm)
    \/ \E task_id \in TaskIdPool, llm \in QueryReplies,
          search \in {SearchRaised, OneResult, FullBatch} :
           researcher_step(task_id, llm, search)
    \/ \E task_id \in TaskIdPool, llm \in WriterReplies : writer_step(task_id, llm)
    \/ \E task_id \in TaskIdPool, saved \in SaveReplies : save_results_step(task_id, saved)

SpecJudge == Init /\ [][NextJudge]_vars

\* runs whose limit lets the supervisor decide past MinExploration rounds
DeepLimits == ManySearches .. MaxDeepLimit

DeepRequests == [query : { q \in Queries : q.len = 16 }, max_searches : DeepLimits]

NextDeep ==
    \/ \E request \in DeepRequests, task_id \in TaskIdPool : start_research(request, task_id)
    \/ \E task_id \in TaskIdPool : run_research_task(task_id)

SpecDeep == Init /\ [][NextDeep]_vars

\* the text-generation provider is down: every llm.invoke / llm.ainvoke raises
LlmDown(reply) == reply.raised

\* a run with the text-generation provider down, watched through the status request
NextLlmDown ==
    \/ \E request \in DeepRequests, task_id \in TaskIdPool : start_research(request, task_id)
    \/ \E task_id \in TaskIdPool : get_research_status(task_id)
    \/ \E task_id \in TaskIdPool : run_research_task_start(task_id)
    \/ \E task_id \in TaskIdPool, llm \in { r \in JudgeReplies : LlmDown(r) } :
           supervisor_step(task_id, llm)
    \/ \E task_id \in TaskIdPool, llm \in { r \in QueryReplies : LlmDown(r) },
          search \in SearchReplies :
           researcher_step(task_id, llm, search)
    \/ \E task_id \in TaskIdPool, llm \in { r \in WriterReplies : LlmDown(r) } :
           writer_step(task_id, llm)

SpecLlmDown == Init /\ [][NextLlmDown]_vars

\* every limit ResearchRequest accepts
AllLimitRequests ==
    [query : { q \in Queries : q.len = 16 }, max_searches : MinSearches .. MaxSearches]

\* the search provider is down (every tavily.search raises) while synthesis
\* and saving succeed
NextSearchDown ==
    \/ \E request \in AllLimitRequests, task_id \in TaskIdPool : start_research(request, task_id)
    \/ \E task_id \in TaskIdPool : run_research_task_start(task_id)
    \/ \E task_id \in TaskIdPool, llm \in JudgeReplies : supervisor_step(task_id, llm)
    \/ \E task_id \in TaskIdPool, llm \in QueryReplies :
           researcher_step(task_id, llm, SearchRaised)
    \/ \E task_id \in TaskIdPool, llm \in { r \in WriterReplies : ~r.raised } :
           writer_step(task_id, llm)
    \/ \E task_id \in TaskIdPool : save_results_step(task_id, "research.md")

FairSpecSearchDown ==
    /\ Init
    /\ [][NextSearchDown]_vars
    /\ WF_vars(NextSearchDown)


\* two uuids: two tasks live in the registry at once
TwoTaskIds == {"t1", "t2"}

InitTwo ==
    /\ environment \in [anthropic_api_key : BOOLEAN, tavily_api_key : BOOLEAN,
                        agents_importable : BOOLEAN]
    /\ uuids = TwoTaskIds
    /\ research_tasks = << >>
    /\ background = << >>
    /\ response = NoResponse
    /\ streams = << >>

\* accepted requests whose runs take one round
OneRoundRequests ==
    [query : { q \in Queries : q.len = 16 }, max_searches : {MinSearches}]

\* two tasks, their runs and one cancel request for each, interleaved
NextTwo ==
    \/ \E request \in OneRoundRequests, task_id \in TwoTaskIds : start_research(request, task_id)
    \/ \E task_id \in TwoTaskIds :
           /\ task_id \in Registered => CancelledEvents(research_tasks[task_id]) = 0
           /\ cancel_research(task_id)
    \/ \E task_id \in TwoTaskIds : run_research_task_plain(task_id)

SpecTwo == InitTwo /\ [][NextTwo]_vars

----------------------------------------------------------------------------
(* Properties *)

Task(task_id) == research_tasks[task_id]

Running(task_id) == task_id \in DOMAIN background /\ background[task_id].pc # "returned"

IsProgress(task, i, node_name) ==
    /\ task.events[i].type = "progress"
    /\ task.events[i].data.phase = node_name

IsCancelled(task, i) == task.events[i].type = "cancelled"

\* C1: in every reachable state the round counter of a task, in the task dict
\* and in the graph state, is at most the task's round limit.
C1_RoundCountWithinLimit ==
    \A task_id \in Registered :
        /\ Task(task_id).search_count <= Task(task_id).max_searches
        /\ background[task_id].state.search_count <= background[task_id].state.max_searches

\* a task that has used up a limit of at least two rounds, with findings, while
\* the supervisor is about to decide
C1_Witness ==
    \E task_id \in Registered :
        /\ Task(task_id).max_searches >= 2
        /\ Task(task_id).search_count = Task(task_id).max_searches
        /\ Task(task_id).findings # << >>
        /\ background[task_id].pc = "supervisor"

HasDuplicateUrl(findings) ==
    \E i, j \in 1 .. Len(findings) : i # j /\ findings[i].url = findings[j].url

\* C2: the findings of a task never hold two entries with the same url.
C2_NoDuplicateFindings ==
    \A task_id \in Registered :
        /\ ~HasDuplicateUrl(Task(task_id).findings)
        /\ ~HasDuplicateUrl(background[task_id].state.research_findings)

\* C3: every started task eventually is, and from then on stays, in a terminal
\* status, whatever the providers answer.
C3_EventuallyTerminal ==
    \A task_id \in TaskIdPool :
        <>[](task_id \in Registered => Task(task_id).status \in Terminal)

\* a task that ended failed after at least one completed round, and one that
\* completed although every search came back empty-handed
C3_Witness ==
    \E task_id \in Registered :
        /\ ~Running(task_id)
        /\ Task(task_id).search_count >= 1
        /\ \/ Task(task_id).status = "failed"
           \/ Task(task_id).status = "completed" /\ Task(task_id).findings = << >>

\* a cancel was accepted between the supervisor's decision to research and the
\* end of the round it started, and that round has completed
RoundCompletedAfterCancel(task) ==
    \E i, k \in 1 .. Len(task.events) :
        /\ i + 1 < k
        /\ IsProgress(task, i, "supervisor")
        /\ IsProgress(task, k, "researcher")
        /\ \A j \in (i + 1) .. (k - 1) : IsCancelled(task, j)

\* C4: once a round that was in flight when a cancel was accepted has completed,
\* the task is cancelled and never again pending, researching, writing or completed.
C4_CancelledAfterRound ==
    \A task_id \in Registered :
        RoundCompletedAfterCancel(Task(task_id)) =>
            Task(task_id).status \notin {"pending", "researching", "writing", "completed"}

RoundsAfter(task, i) ==
    Cardinality({ j \in (i + 1) .. Len(task.events) : IsProgress(task, j, "researcher") })

\* C5: after an accepted cancel at most one more round completes and the writer
\* never runs.
C5_NoWorkAfterCancel ==
    \A task_id \in Registered :
        \A i \in 1 .. Len(Task(task_id).events) :
            IsCancelled(Task(task_id), i) =>
                /\ RoundsAfter(Task(task_id), i) <= 1
                /\ \A j \in (i + 1) .. Len(Task(task_id).events) :
                       ~IsProgress(Task(task_id), j, "writer")
                /\ (Running(task_id) => background[task_id].pc \notin {"writer", "save_results"})

Frozen(task) ==
    <<task.status, task.search_count, task.findings, task.final_summary,
      task.saved_path, task.error, task.completed_at>>

\* C6: once the status of a task is terminal, no step changes its status, round
\* counter, findings, summary, saved path, error or completion time.
C6_TerminalIsImmutable ==
    [][\A task_id \in Registered :
           Task(task_id).status \in Terminal =>
               Frozen(research_tasks'[task_id]) = Frozen(research_tasks[task_id])]_vars

PhaseRank(status) ==
    CASE status = "pending" -> 0
      [] status = "researching" -> 1
      [] status = "writing" -> 2
      [] status = "completed" -> 3
      [] OTHER -> 4

AllowedTransition(from, to) ==
    /\ from \notin Terminal
    /\ \/ to \in {"failed", "cancelled"}
       \/ PhaseRank(from) < PhaseRank(to)

\* C7: every change of status moves forward along pending, researching, writing,
\* completed, or from a non-terminal status to failed or cancelled.
C7_MonotonicPhases ==
    [][\A task_id \in Registered :
           research_tasks'[task_id].status # Task(task_id).status =>
               AllowedTransition(Task(task_id).status, research_tasks'[task_id].status)]_vars

\* C8: the result request on a known task is rejected with 400 exactly when the
\* status of the task is not terminal.
C8_ResultIffTerminal ==
    (response.op = "get_research_result" /\ response.task_id \in Registered) =>
        /\ (response.status_code = 400) = (Task(response.task_id).status \notin Terminal)
        /\ (response.status_code = 200) = (Task(response.task_id).status \in Terminal)

\* C9: a cancel request on a task whose status is terminal is rejected with 400
\* and leaves the task as it was.
C9_CancelTerminalRejected ==
    [][\A task_id \in Registered :
           (/\ response'.op = "cancel_research"
            /\ response'.task_id = task_id
            /\ Task(task_id).status \in Terminal) =>
               /\ response'.status_code = 400
               /\ research_tasks'[task_id] = research_tasks[task_id]]_vars

\* C10: a supervisor step taken with the round counter at the limit routes to the
\* writer, whatever the findings and whatever the text-generation provider answers.
C10_CapForcesWrite ==
    [][\A task_id \in DOMAIN background :
           (/\ background[task_id].pc = "supervisor"
            /\ background[task_id].state.search_count >= background[task_id].state.max_searches
            /\ background'[task_id] # background[task_id]) =>
               background'[task_id].pc = "writer"]_vars

\* the writer was reached at the limit without a single finding
C10_Witness ==
    \E task_id \in DOMAIN background :
        /\ background[task_id].pc = "writer"
        /\ background[task_id].state.search_count = background[task_id].state.max_searches
        /\ background[task_id].state.research_findings = << >>

\* C11 as stated: a supervisor step taken with no findings routes to the
\* researcher, whatever the round counter, also at or above the round limit.
C11_EmptyFindingsContinue ==
    [][\A task_id \in DOMAIN background :
           (/\ background[task_id].pc = "supervisor"
            /\ background[task_id].state.research_findings = << >>
            /\ background'[task_id] # background[task_id]) =>
               background'[task_id].pc = "researcher"]_vars

\* C11: a supervisor step taken with no findings and the round counter below
\* the round limit routes to the researcher, whatever the provider answers.
C11_EmptyFindingsContinueBelowLimit ==
    [][\A task_id \in DOMAIN background :
           (/\ background[task_id].pc = "supervisor"
            /\ background[task_id].state.research_findings = << >>
            /\ background[task_id].state.search_count < background[task_id].state.max_searches
            /\ background'[task_id] # background[task_id]) =>
               background'[task_id].pc = "researcher"]_vars

\* the researcher was chosen past MinExploration rounds, still without findings
C11_Witness ==
    \E task_id \in DOMAIN background :
        /\ background[task_id].pc = "researcher"
        /\ background[task_id].state.research_findings = << >>
        /\ background[task_id].state.search_count >= MinExploration

\* C12: no step of a retrieval round (the researcher's query refinement and
\* search, the supervisor's sufficiency judgment) ends the run or leaves the
\* task failed, whatever the text-generation provider does.
C12_GenerationFailureAbsorbed ==
    [][\A task_id \in DOMAIN background :
           (/\ background[task_id].pc \in {"supervisor", "researcher"}
            /\ background'[task_id] # background[task_id]) =>
               /\ background'[task_id].pc \in {"supervisor", "researcher", "writer"}
               /\ research_tasks'[task_id].status # "failed"]_vars

\* C13: with the text-generation provider down and a limit of at least 3, the
\* writer is entered exactly when the round counter is at least ManySearches
\* with at least ManyFindings findings, or at the limit, and a task whose graph
\* started fails only in the writer.
C13_LlmDownReachesWriting ==
    \A task_id \in Registered :
        LET state == background[task_id].state
            enough == /\ state.search_count >= ManySearches
                      /\ Len(state.research_findings) >= ManyFindings
        IN  /\ background[task_id].pc = "writer" =>
                   (enough \/ state.search_count >= state.max_searches)
            /\ background[task_id].pc = "researcher" =>
                   (~enough /\ state.search_count < state.max_searches)
            /\ (environment.agents_importable /\ Task(task_id).status = "failed") =>
                   Task(task_id).error = "synthesis failed"

Last(s) == s[Len(s)]

\* the step researcher_node takes from `state` when tavily.search raises
SearchFailedStep(task_id) ==
    /\ background[task_id].pc = "researcher"
    /\ background'[task_id] =
           [pc |-> "supervisor",
            state |-> MergeState(background[task_id].state,
                                 ResearcherUpdate(background[task_id].state, SearchRaised))]

\* C14: a round whose search raised leaves the findings of the graph and of the
\* task as they were, adds exactly 1 to the round counter, records the failure
\* as a message and the round as a progress event, and does not fail the task.
C14_SearchFailureAbsorbed ==
    [][\A task_id \in DOMAIN background :
           SearchFailedStep(task_id) =>
               /\ background'[task_id].state.research_findings =
                      background[task_id].state.research_findings
               /\ research_tasks'[task_id].findings = Task(task_id).findings
               /\ background'[task_id].state.search_count =
                      background[task_id].state.search_count + 1
               /\ research_tasks'[task_id].search_count =
                      background[task_id].state.search_count + 1
               /\ Last(background'[task_id].state.messages) = "Search error"
               /\ Len(research_tasks'[task_id].events) = Len(Task(task_id).events) + 1
               /\ IsProgress(research_tasks'[task_id],
                             Len(research_tasks'[task_id].events), "researcher")
               /\ research_tasks'[task_id].status = Task(task_id).status
               /\ research_tasks'[task_id].status # "failed"]_vars

\* a search failed in a round that started with findings from an earlier round
C14_Witness ==
    \E task_id \in DOMAIN background :
        /\ background[task_id].pc = "supervisor"
        /\ background[task_id].state.messages # << >>
        /\ Last(background[task_id].state.messages) = "Search error"
        /\ background[task_id].state.research_findings # << >>
        /\ Task(task_id).findings = background[task_id].state.research_findings

\* the nodes of the graph alone, for C15: with the search provider down the
\* findings stay empty, the researcher is chosen while the round counter is
\* below the limit, the writer is entered with the counter equal to the limit,
\* and a task whose graph started completes after exactly max_searches rounds.
SearchDownRounds ==
    /\ [](\A task_id \in Registered :
             LET state == background[task_id].state
             IN  /\ state.research_findings = << >>
                 /\ Task(task_id).findings = << >>
                 /\ background[task_id].pc = "researcher" =>
                        state.search_count < state.max_searches
                 /\ background[task_id].pc \in {"writer", "save_results"} =>
                        state.search_count = state.max_searches
                 /\ Task(task_id).status # "failed" \/ ~environment.agents_importable)
    /\ \A task_id \in TaskIdPool :
           (task_id \in Registered /\ environment.agents_importable)
               ~> (/\ task_id \in Registered
                   /\ Task(task_id).status = "completed"
                   /\ Task(task_id).search_count = Task(task_id).max_searches
                   /\ Task(task_id).final_summary # ""
                   /\ RoundsAfter(Task(task_id), 0) = Task(task_id).max_searches)

\* the step taken when llm.ainvoke raises in writer_node
WriterFailedStep(task_id) ==
    /\ background[task_id].pc = "writer"
    /\ background'[task_id].pc = "returned"

\* C16: a raised synthesis call leaves the task failed with its error stored and
\* logged and no summary, and the writer is entered at most once per task: after
\* the writer the graph never returns to the supervisor or the researcher, and a
\* returned run takes no further step.
C16_SynthesisFailureIsFatal ==
    [][\A task_id \in DOMAIN background :
           /\ WriterFailedStep(task_id) =>
                  /\ research_tasks'[task_id].status = "failed"
                  /\ research_tasks'[task_id].error # None
                  /\ research_tasks'[task_id].final_summary = ""
                  /\ background'[task_id].state.final_summary = ""
                  /\ Last(research_tasks'[task_id].events).type = "error"
           /\ background[task_id].pc \in {"writer", "save_results", "returned"} =>
                  background'[task_id].pc \in {"writer", "save_results", "returned"}
           /\ background[task_id].pc \in {"save_results", "returned"} =>
                  background'[task_id].pc # "writer"
           /\ background[task_id].pc = "returned" =>
                  background'[task_id] = background[task_id]]_vars

\* synthesis failed on a task that had gathered findings
C16_Witness ==
    \E task_id \in Registered :
        /\ Task(task_id).status = "failed"
        /\ Task(task_id).error = "synthesis failed"
        /\ Task(task_id).findings # << >>
        /\ background[task_id].pc = "returned"

\* the step taken when the save_results node could not write the file
SaveFailedStep(task_id) ==
    /\ background[task_id].pc = "save_results"
    /\ background'[task_id] =
           [pc |-> "returned",
            state |-> MergeState(background[task_id].state, SaveUpdate(None))]

Log(stream_id) == Task(streams[stream_id].task_id).events

\* C18: what a stream has sent is a run of consecutive entries of the task's
\* event log, in log order: each entry is the log's event at its index, and
\* each index is the one before it plus 1, so nothing is repeated, reordered
\* or skipped, whatever the background task and cancel requests do meanwhile.
C18_StreamInAppendOrder ==
    \A stream_id \in DOMAIN streams :
        LET sent == streams[stream_id].sent
        IN  \A i \in 1 .. Len(sent) :
                /\ sent[i].index + 1 \in 1 .. Len(Log(stream_id))
                /\ sent[i].event = Log(stream_id)[sent[i].index + 1]
                /\ i > 1 => sent[i].index = sent[i - 1].index + 1

\* a consumer that has been sent a cancelled event followed by a later event
C18_Witness ==
    \E stream_id \in DOMAIN streams :
        \E i \in 1 .. Len(streams[stream_id].sent) - 1 :
            /\ streams[stream_id].sent[i].event.type = "cancelled"
            /\ streams[stream_id].sent[i + 1].event.type = "progress"

ReceivedAll(stream_id) ==
    /\ Len(streams[stream_id].sent) = Len(Log(stream_id))
    /\ \A i \in 1 .. Len(Log(stream_id)) : streams[stream_id].sent[i].event = Log(stream_id)[i]

\* C19: a stream attached to a task whose status is terminal eventually closes,
\* and a closed stream has sent every event of the task's log, the last one
\* (complete, error or cancelled) included.
C19_StreamClosesAfterTerminal ==
    \A stream_id \in StreamIds :
        /\ (/\ stream_id \in DOMAIN streams
             /\ Task(streams[stream_id].task_id).status \in Terminal)
               ~> (stream_id \in DOMAIN streams /\ streams[stream_id].closed)
        /\ []((stream_id \in DOMAIN streams /\ streams[stream_id].closed) =>
                  ReceivedAll(stream_id))

\* a stream closed on a task that was cancelled on the way
C19_Witness ==
    \E stream_id \in DOMAIN streams :
        /\ streams[stream_id].closed
        /\ \E i \in 1 .. Len(streams[stream_id].sent) :
               streams[stream_id].sent[i].event.type = "cancelled"

\* C20 as stated: a consumer that attaches when the log holds k events starts
\* at index k, so that it is sent only events with index >= k.
C20_StreamFromAttachPoint ==
    [][\A stream_id \in StreamIds :
           (stream_id \notin DOMAIN streams /\ stream_id \in DOMAIN streams') =>
               streams'[stream_id].last_index =
                   Len(Task(streams'[stream_id].task_id).events)]_vars

\* C20: every consumer is sent the log from its first event, whatever the log
\* held when it attached: the i-th event it is sent has index i - 1.
C20_StreamReplaysFromStart ==
    \A stream_id \in DOMAIN streams :
        /\ streams[stream_id].last_index = Len(streams[stream_id].sent)
        /\ \A i \in 1 .. Len(streams[stream_id].sent) :
               streams[stream_id].sent[i].index = i - 1

\* a consumer has just attached to a log that already holds events and stands
\* at index 0
C20_Witness ==
    /\ response.op = "stream_research_progress"
    /\ response.status_code = 200
    /\ \E stream_id \in DOMAIN streams :
           /\ Log(stream_id) # << >>
           /\ streams[stream_id].last_index = 0

ReadOps == {"get_research_status", "get_research_result", "list_research_tasks"}

\* C21: a status, result or listing request, answered with 200, 400 or 404,
\* leaves the registry, every task with its event log, the background runs and
\* the streams exactly as they were.
C21_ReadsChangeNothing ==
    [][response'.op \in ReadOps =>
           /\ research_tasks' = research_tasks
           /\ background' = background
           /\ uuids' = uuids
           /\ streams' = streams]_vars

\* a result request was answered on a finished task that has an event log, and
\* the log is still there
C21_Witness ==
    /\ response.op = "get_research_result"
    /\ response.status_code = 200
    /\ response.task_id \in Registered
    /\ Task(response.task_id).events # << >>
    /\ response.body.findings = Task(response.task_id).findings

MissingCredential == ~environment.anthropic_api_key \/ ~environment.tavily_api_key

\* C22: with a credential missing, a start request is answered 400 with the
\* configuration error of the first missing key (or 422 when the request itself
\* is invalid), and registers no task, schedules no run and draws no id.
C22_MissingCredentialRejected ==
    [][(response'.op = "start_research" /\ MissingCredential) =>
           /\ \/ response'.status_code = 422
              \/ /\ response'.status_code = 400
                 /\ response'.body.detail =
                        IF ~environment.anthropic_api_key
                        THEN "ANTHROPIC_API_KEY not configured"
                        ELSE "TAVILY_API_KEY not configured"
           /\ research_tasks' = research_tasks
           /\ background' = background
           /\ uuids' = uuids]_vars

\* a start request was refused for the search credential alone
C22_Witness ==
    /\ response.op = "start_research"
    /\ response.status_code = 400
    /\ response.body.detail = "TAVILY_API_KEY not configured"
    /\ environment.anthropic_api_key
    /\ research_tasks = << >>
    /\ background = << >>

\* C23: every registered task has a round limit in MinSearches..MaxSearches,
\* the graph runs with that same limit, no step changes it, and a start
\* request that names max_searches as invalid registers nothing.
C23_RoundLimitInRange ==
    /\ [](\A task_id \in Registered :
             /\ Task(task_id).max_searches \in MinSearches .. MaxSearches
             /\ background[task_id].state.max_searches = Task(task_id).max_searches)
    /\ [][/\ \A task_id \in Registered :
                 research_tasks'[task_id].max_searches = Task(task_id).max_searches
           /\ (/\ response'.op = "start_research"
               /\ response'.status_code = 422
               /\ "max_searches" \in response'.body.loc) =>
                  (research_tasks' = research_tasks /\ background' = background)]_vars

\* a start request with a valid query was refused for its round limit alone
\* while the credentials were in place
C23_Witness ==
    /\ response.op = "start_research"
    /\ response.status_code = 422
    /\ response.body.loc = {"max_searches"}
    /\ ~MissingCredential
    /\ research_tasks = << >>

\* C24: whenever the researcher is about to run its first round, or any round
\* that starts without findings, the query it searches for is the task's
\* original query, text and length, whatever the text-generation provider
\* would answer or raise: the provider is not consulted.
C24_OriginalQueryWhenNoFindings ==
    \A task_id \in DOMAIN background :
        LET state == background[task_id].state
        IN  (/\ background[task_id].pc = "researcher"
             /\ (state.search_count = 0 \/ state.research_findings = << >>)) =>
                \A llm \in QueryReplies :
                    generate_search_query(state.research_query, state.research_findings,
                                          state.search_count, llm)
                        = [raised |-> FALSE, query |-> Task(task_id).query]

\* a second round is about to start without findings, the first search having failed
C24_Witness ==
    \E task_id \in DOMAIN background :
        /\ background[task_id].pc = "researcher"
        /\ background[task_id].state.search_count >= 1
        /\ background[task_id].state.research_findings = << >>
        /\ Contains(background[task_id].state.messages, "Search error")

\* the phase a task is in: its status, and Writing while the graph is in the
\* writer or the save_results node of a task that has not been cancelled
PhaseOf(task, run) ==
    IF task.status = "researching" /\ run.pc \in {"writer", "save_results"}
    THEN "writing"
    ELSE task.status

\* the event that tells of the entry into a phase
Corresponds(event, phase) ==
    CASE phase = "researching" -> event.type = "status"
      [] phase = "writing" -> event.type = "progress" /\ event.data.phase = "writer"
      [] phase = "completed" -> event.type = "complete"
      [] phase = "failed" -> event.type = "error"
      [] phase = "cancelled" -> event.type = "cancelled"
      [] OTHER -> FALSE

\* C25: a step that changes the phase of a task appends to the task's log, and
\* the last event it appends is the one that corresponds to the new phase.
C25_PhaseChangeLogged ==
    [][\A task_id \in Registered :
           PhaseOf(research_tasks'[task_id], background'[task_id]) #
               PhaseOf(Task(task_id), background[task_id]) =>
               /\ Len(research_tasks'[task_id].events) > Len(Task(task_id).events)
               /\ Corresponds(Last(research_tasks'[task_id].events),
                              PhaseOf(research_tasks'[task_id], background'[task_id]))]_vars

\* the first round of the task brought at least one finding
FirstRoundFound(task) ==
    \E i \in 1 .. Len(task.events) :
        /\ IsProgress(task, i, "researcher")
        /\ task.events[i].data.search_count = 1
        /\ task.events[i].data.findings_count >= 1

\* C26: a task with max_searches = 2 whose first round brought a finding, no
\* provider call failing: the supervisor answers research after the first round
\* and write after the second whatever the judgment would be, the writer is
\* entered with two rounds done, the task does not fail, and once completed it
\* has run exactly two rounds and holds the graph's findings, no url twice.
C26_TwoRoundScenario ==
    \A task_id \in Registered :
        LET task == Task(task_id)
            state == background[task_id].state
        IN  (task.max_searches = 2 /\ FirstRoundFound(task)) =>
                /\ task.status # "failed"
                /\ background[task_id].pc = "supervisor" =>
                       \A llm \in JudgeReplies :
                           should_continue_research(state, llm) =
                               IF state.search_count = 1 THEN "research" ELSE "write"
                /\ background[task_id].pc \in {"writer", "save_results"} =>
                       state.search_count = 2
                /\ task.status = "completed" =>
                       /\ task.search_count = 2
                       /\ RoundsAfter(task, 0) = 2
                       /\ task.findings = state.research_findings
                       /\ ~HasDuplicateUrl(task.findings)

Min(a, b) == IF a < b THEN a ELSE b

\* C27: whenever the graph stands in the writer, at least MinExploration rounds
\* have been run, or as many as the task's limit when that is smaller.
C27_MinimumExploration ==
    \A task_id \in DOMAIN background :
        background[task_id].pc = "writer" =>
            background[task_id].state.search_count >=
                Min(MinExploration, background[task_id].state.max_searches)

\* the writer was entered with findings on a task allowed two rounds or more
C27_Witness ==
    \E task_id \in DOMAIN background :
        /\ background[task_id].pc = "writer"
        /\ background[task_id].state.max_searches >= MinExploration
        /\ background[task_id].state.research_findings # << >>

\* the supervisor is about to decide and the decision is left to the provider
AtJudgment(task_id) ==
    /\ background[task_id].pc = "supervisor"
    /\ background[task_id].state.search_count < background[task_id].state.max_searches
    /\ background[task_id].state.search_count >= 2
    /\ background[task_id].state.research_findings # << >>

SaysWrite(llm) == \E i \in 1 .. Len(llm.content) : llm.content[i] \in {"write", "Write", "WRITE"}

SaysResearch(llm) ==
    \E i \in 1 .. Len(llm.content) : llm.content[i] \in {"research", "Research", "RESEARCH"}

\* the graph stands in the writer, sent there below the limit
WroteBelowLimit(task_id) ==
    /\ background[task_id].pc = "writer"
    /\ background[task_id].state.search_count < background[task_id].state.max_searches

\* C28: at the judgment, a reply that holds neither WRITE nor RESEARCH in any
\* letter case gives write if search_count >= 3 and research otherwise.
C28_UnclearReply ==
    \A task_id \in DOMAIN background :
        AtJudgment(task_id) =>
            \A llm \in JudgeReplies :
                (~llm.raised /\ ~SaysWrite(llm) /\ ~SaysResearch(llm)) =>
                    should_continue_research(background[task_id].state, llm) =
                        IF background[task_id].state.search_count >= 3
                        THEN "write" ELSE "research"

\* the writer was entered below the limit after three rounds with fewer
\* findings than the failure fallback asks for
C28_Witness ==
    \E task_id \in DOMAIN background :
        /\ WroteBelowLimit(task_id)
        /\ background[task_id].state.search_count = 3
        /\ Len(background[task_id].state.research_findings) \in 1 .. 4

\* C29: at the judgment, a raised call gives write if search_count >= 3 and
\* there are at least 5 findings, research otherwise, and the supervisor's step
\* neither ends the run nor fails the task.
C29_JudgmentFailureFallback ==
    /\ [](\A task_id \in DOMAIN background :
             AtJudgment(task_id) =>
                 \A llm \in JudgeReplies :
                     llm.raised =>
                         should_continue_research(background[task_id].state, llm) =
                             IF /\ background[task_id].state.search_count >= 3
                                /\ Len(background[task_id].state.research_findings) >= 5
                             THEN "write" ELSE "research")
    /\ [][\A task_id \in DOMAIN background :
             (AtJudgment(task_id) /\ background'[task_id] # background[task_id]) =>
                 /\ background'[task_id].pc \in {"researcher", "writer"}
                 /\ research_tasks'[task_id].status = Task(task_id).status]_vars

\* the writer was entered below the limit after three rounds with five
\* findings or more
C29_Witness ==
    \E task_id \in DOMAIN background :
        /\ WroteBelowLimit(task_id)
        /\ background[task_id].state.search_count = 3
        /\ Len(background[task_id].state.research_findings) >= 5

\* C30: at the judgment, a reply that holds both WRITE and RESEARCH, in any
\* letter case, gives write.
C30_WriteBeforeResearch ==
    \A task_id \in DOMAIN background :
        AtJudgment(task_id) =>
            \A llm \in JudgeReplies :
                (~llm.raised /\ SaysWrite(llm) /\ SaysResearch(llm)) =>
                    should_continue_research(background[task_id].state, llm) = "write"

\* the writer was entered after two rounds below the limit, which only a reply
\* holding WRITE brings about
C30_Witness ==
    \E task_id \in DOMAIN background :
        /\ WroteBelowLimit(task_id)
        /\ background[task_id].state.search_count = 2

\* the step is a retrieval round that ran to its end
RoundStep(task_id) ==
    /\ background[task_id].pc = "researcher"
    /\ background'[task_id].pc = "supervisor"

\* C31: a task is registered with round counter 0, in the task and in the graph
\* state; a retrieval round that ran to its end adds exactly 1 to both, whether
\* its search succeeded or failed, and no other step changes either.
C31_RoundCounterSteps ==
    [][/\ \A task_id \in Registered' \ Registered :
             /\ research_tasks'[task_id].search_count = 0
             /\ background'[task_id].state.search_count = 0
       /\ \A task_id \in Registered :
             LET step == IF RoundStep(task_id) THEN 1 ELSE 0
             IN  /\ background'[task_id].state.search_count =
                        background[task_id].state.search_count + step
                 /\ research_tasks'[task_id].search_count =
                        Task(task_id).search_count + step]_vars

\* two rounds have been counted, one whose search failed and one whose search
\* succeeded
C31_Witness ==
    \E task_id \in Registered :
        /\ Task(task_id).search_count = 2
        /\ Contains(background[task_id].state.messages, "Search error")
        /\ Contains(background[task_id].state.messages, "Searched for")

\* s is the beginning of t
IsPrefix(s, t) == Len(s) <= Len(t) /\ SubSeq(t, 1, Len(s)) = s

\* the retrieval round of task_id in which tavily.search answered `search`
RoundWith(task_id, search) ==
    /\ background[task_id].pc = "researcher"
    /\ background'[task_id] =
           [pc |-> "supervisor",
            state |-> MergeState(background[task_id].state,
                                 ResearcherUpdate(background[task_id].state, search))]

\* `added` is the findings of `batch` whose url is not among known_urls, in the
\* order of `batch`
AddedInOrder(added, batch, known_urls) ==
    LET kept == { i \in 1 .. Len(batch) : batch[i].url \notin known_urls }
    IN  /\ Len(added) = Cardinality(kept)
        /\ \E f \in [1 .. Len(added) -> kept] :
              /\ \A i, j \in 1 .. Len(added) : i < j => f[i] < f[j]
              /\ \A i \in 1 .. Len(added) : added[i] = batch[f[i]]

\* C32: the findings of the graph state and of the task only grow at their end:
\* every step leaves the previous sequence as a prefix; a retrieval round adds
\* the findings of its batch whose url was not yet held, in the provider's
\* order; a batch whose urls are all held already leaves the findings as they
\* were.
C32_AccumulationAppendOnly ==
    [][\A task_id \in Registered :
           LET old == background[task_id].state.research_findings
               new == background'[task_id].state.research_findings
               known_urls == { f.url : f \in Range(old) }
           IN  /\ IsPrefix(old, new)
               /\ IsPrefix(Task(task_id).findings, research_tasks'[task_id].findings)
               /\ \A search \in SearchReplies :
                     RoundWith(task_id, search) =>
                         LET batch == ExtractFindings(search.results)
                         IN  /\ AddedInOrder(SubSeq(new, Len(old) + 1, Len(new)),
                                             batch, known_urls)
                             /\ (\A f \in Range(batch) : f.url \in known_urls)
                                    => /\ new = old
                                       /\ research_tasks'[task_id].findings =
                                              Task(task_id).findings
               /\ (new # old) => \E search \in SearchReplies : RoundWith(task_id, search)
      ]_vars

\* three searches succeeded: one added a finding, a later one added two behind
\* it, and one added nothing
C32_Witness ==
    \E task_id \in Registered :
        LET findings == Task(task_id).findings
            messages == background[task_id].state.messages
        IN  /\ findings = << [url |-> "a"], [url |-> ""], [url |-> ""] >>
            /\ Task(task_id).search_count = 3
            /\ background[task_id].state.research_findings = findings
            /\ Cardinality({ i \in 1 .. Len(messages) : messages[i] = "Searched for" }) = 3

\* where the graph of a task stands
At(task_id, nodes) == task_id \in DOMAIN background /\ background[task_id].pc \in nodes

\* the supervisor of task_id can decide to write in this state
CanProceed(task_id) ==
    LET state == background[task_id].state
    IN  \E llm \in JudgeReplies :
            should_continue_research(MergeState(state, SupervisorUpdate(state)), llm) = "write"

\* the events a step appended to the log of task_id
Appended(task_id) ==
    SubSeq(research_tasks'[task_id].events,
           Len(Task(task_id).events) + 1, Len(research_tasks'[task_id].events))

\* C33: the graph enters the writer only from a supervisor step that can decide
\* to write; once it stands in the writer it never stands in the supervisor or
\* the researcher again, and once it has left the writer it never stands there
\* again; from then on the round counter and the findings stay as they are and
\* the run logs only the writer's and the save node's progress and the final
\* complete or error event.
C33_WritingEnteredOnce ==
    /\ \A task_id \in TaskIdPool :
          /\ [](At(task_id, {"writer"}) => []~At(task_id, {"supervisor", "researcher"}))
          /\ [](At(task_id, {"save_results", "returned"}) => []~At(task_id, {"writer"}))
    /\ [][\A task_id \in Registered :
             /\ (~At(task_id, {"writer"}) /\ background'[task_id].pc = "writer") =>
                    /\ At(task_id, {"supervisor"})
                    /\ CanProceed(task_id)
             /\ At(task_id, {"writer", "save_results"}) =>
                    /\ background'[task_id].state.search_count =
                           background[task_id].state.search_count
                    /\ background'[task_id].state.research_findings =
                           background[task_id].state.research_findings
                    /\ research_tasks'[task_id].findings = Task(task_id).findings
                    /\ research_tasks'[task_id].search_count = Task(task_id).search_count
                    /\ \A event \in Range(Appended(task_id)) :
                          \/ event.type \in {"complete", "error", "cancelled"}
                          \/ /\ event.type = "progress"
                             /\ event.data.phase \in {"writer", "save_results"}
       ]_vars

\* a task went through a retrieval round, the writer and the save node and
\* completed: its log holds one writer event, after the researcher's
C33_Witness ==
    \E task_id \in Registered :
        LET task == Task(task_id)
            writers == { i \in 1 .. Len(task.events) : IsProgress(task, i, "writer") }
        IN  /\ At(task_id, {"returned"})
            /\ task.status = "completed"
            /\ Cardinality(writers) = 1
            /\ \E i \in 1 .. Len(task.events) :
                  IsProgress(task, i, "researcher") /\ \A j \in writers : i < j

\* the events of the longest run with a round limit: two status events, a
\* supervisor event before each round and one more before the writer, one event
\* per round, the writer's, the save node's and the final event
RunEvents(max_searches) == 2 * max_searches + 6

\* C34: the log of a task is never longer than the events of its longest run plus
\* the one event of a cancellation, a bound that depends on the round limit only.
C34_LogBoundedByRounds ==
    \A task_id \in Registered :
        Len(Task(task_id).events) <= RunEvents(Task(task_id).max_searches) + 1

\* C35: the log of a task holds at most one terminal event, and a terminal event
\* is the last event of the log.
C35_OneTerminalEventLast ==
    \A task_id \in Registered :
        LET events == Task(task_id).events
            terminal == { i \in 1 .. Len(events) :
                            events[i].type \in {"complete", "error", "cancelled"} }
        IN  /\ Cardinality(terminal) <= 1
            /\ \A i \in terminal : i = Len(events)

\* C36: in every reachable state a task carries an error exactly when its
\* status is 'failed'; a completed or cancelled task carries none.
C36_ErrorIffFailed ==
    \A task_id \in Registered :
        /\ (Task(task_id).error # None) <=> (Task(task_id).status = "failed")
        /\ Task(task_id).status \in {"completed", "cancelled"} => Task(task_id).error = None

\* a task that was cancelled while running failed afterwards and carries the
\* error of the failed synthesis
C36_Witness ==
    \E task_id \in Registered :
        /\ Task(task_id).status = "failed"
        /\ Task(task_id).error = "synthesis failed"
        /\ \E i \in 1 .. Len(Task(task_id).events) : IsCancelled(Task(task_id), i)
        /\ Last(Task(task_id).events).type = "error"

\* what the registry and the graph run hold for a task: status, counters,
\* findings, event log and graph state
Held(task_id) == <<research_tasks[task_id], background[task_id]>>

\* C37: every step changes at most one task: a step that changes what is held
\* for one task id, a cancel request for it or the registration of a new task
\* leaves the status, counters, findings, event log and graph state of every
\* other task as they were.
C37_TasksIndependent ==
    [][\A other \in Registered :
           LET acted == { task_id \in Registered \ {other} : Held(task_id)' # Held(task_id) }
                        \cup (Registered' \ Registered)
                        \cup ({response'.task_id} \ {other, None})
           IN  acted # {} => Held(other)' = Held(other)]_vars

\* two tasks with different histories side by side: one was cancelled before
\* its run started, the other ran a round and completed uncancelled
C37_Witness ==
    \E task_id, other \in Registered :
        /\ task_id # other
        /\ Task(task_id).status = "cancelled"
        /\ Len(Task(task_id).events) = 1
        /\ background[task_id].pc = "scheduled"
        /\ Task(other).status = "completed"
        /\ Task(other).search_count = 1
        /\ \A i \in 1 .. Len(Task(other).events) : ~IsCancelled(Task(other), i)

\* C38: the findings_count a status request reports for a task is the number of
\* findings a result request returns for it, in every reachable state, and the
\* findings_count of a complete event is the number of findings of the task.
C38_FindingsCountIsHeld ==
    \A task_id \in Registered :
        LET task == Task(task_id)
        IN  /\ StatusBody(task).findings_count = Len(ResultBody(task).findings)
            /\ \A i \in 1 .. Len(task.events) :
                  task.events[i].type = "complete" =>
                      task.events[i].data.findings_count = Len(task.findings)

\* C39: a status request reports a completion time only for a task whose status
\* is terminal, never together with 'pending' or 'researching'.
C39_CompletedAtOnlyTerminal ==
    \A task_id \in Registered :
        StatusBody(Task(task_id)).completed_at # NoTime =>
            StatusBody(Task(task_id)).status \in Terminal

====
